---- MODULE Spec2Model ----
(***************************************************************************)
(* Model of the file-transcription program audio_transcribe.py:            *)
(* main -> check_dependencies -> MediaTranscriber.__init__ ->              *)
(* transcribe_media_file -> convert_to_wav (ffmpeg strategy, pydub         *)
(* strategy, wav short-circuit, audio route) -> recognition -> cleanup.    *)
(* The filesystem, the external ffmpeg process, the pydub decoder, the     *)
(* recognition backend and os.unlink are the environment: each of their    *)
(* outcomes is a nondeterministic choice.                                  *)
(***************************************************************************)
EXTENDS Integers, Sequences, FiniteSets, TLC

VARIABLES
    pc,                \* position in main / transcribe_media_file / convert_to_wav
    run,               \* number of the current program run (1..MaxRuns)
    argc,              \* len(sys.argv)
    sr_avail,          \* the SpeechRecognition package can be imported
    pydub_avail,       \* the pydub package can be imported
    ffmpeg_installed,  \* 'ffmpeg -version' succeeds on this machine
    chunk_mode,        \* sys.argv[3]
    media_file_path,   \* sys.argv[1]
    files,             \* set of paths that exist on disk
    content,           \* content of every existing file
    nextTemp,          \* source of fresh temporary names
    ffmpeg_available,  \* MediaTranscriber.ffmpeg_available
    wav_file_path,     \* local of transcribe_media_file
    temp_wav_path,     \* local of transcribe_media_file
    audio,             \* the pydub AudioSegment being converted
    decoder,           \* decoder format given to pydub ("auto" when none)
    ffmpegState,       \* transcoder strategy: idle, running, failed, ok
    libState,          \* library decode strategy: idle, running, failed, ok
    ffmpegCalls,       \* number of ffmpeg strategy invocations in this run
    libCalls,          \* number of library decode invocations in this run
    ffmpegTemp,        \* temporary file created by the ffmpeg strategy
    created,           \* temporary files created in this run
    deleted,           \* paths unlinked by the program in this run
    unlinkFailed,      \* os.unlink raised in the finally block
    convertResult,     \* convert_to_wav: none, ok, failed
    handed,            \* format of the audio handed to recognition
    outcome,           \* which handler of transcribe_media_file ended the try
    stdout,            \* lines written to the primary stream
    retval,            \* value returned by transcribe_media_file
    exitCode,          \* process exit code
    observed,          \* (outcome, caller-visible observation) of finished runs
    route,             \* branch convert_to_wav took: none, video, wav, audio
    requests,          \* recognition requests sent to the backend in this run
    backend,           \* what the backend answered to the request
    error,             \* the exception being handled or propagated
    stderr,            \* kinds of the reports written to the secondary stream
    script,            \* what the environment does in a replayed run
    previous,          \* situation and result of the run replayed before this one
    variant,           \* live listening: none, queue (VoiceListener), web (WebVoiceListener)
    is_listening,      \* the listener's is_listening flag
    audio_queue,       \* VoiceListener.audio_queue
    producing,         \* the background capture thread is running
    captured,          \* number of segments captured so far
    current,           \* segment the consumer holds (0: none)
    transcribed,       \* segments handed to recognition, in order
    printed,           \* segments whose text was written to the primary stream
    failures,          \* segments whose transcription raised
    lpc,               \* position of the thread running start_listening
    lateIterations,    \* loop bodies entered after stop() cleared the flag
    heldAtStop,        \* segment the consumer held when stop() ran (0: none)
    language,          \* the language tag given to MediaTranscriber
    duration,          \* seconds of audio in the input
    position,          \* seconds already read from the opened source
    steps,             \* recognition steps of this invocation, in order
    audio_data,        \* what recognizer.record returned: the seconds it holds
    sent,              \* what the recognition request carried
    caller,            \* who called convert_to_wav: transcribe_media_file or the session's user
    calls,             \* results of the convert_to_wav calls made directly
    written,           \* values assigned to ffmpeg_available, in order
    reads              \* values of ffmpeg_available that convert_to_wav read

vars == <<pc, run, argc, sr_avail, pydub_avail, ffmpeg_installed, chunk_mode,
          media_file_path, files, content, nextTemp, ffmpeg_available,
          wav_file_path, temp_wav_path, audio, decoder, ffmpegState, libState,
          ffmpegCalls, libCalls, ffmpegTemp, created, deleted, unlinkFailed,
          convertResult, handed, outcome, stdout, retval, exitCode, observed,
          route, requests, backend, error, stderr, script, previous,
          variant, is_listening, audio_queue, producing, captured, current,
          transcribed, printed, failures, lpc, lateIterations, heldAtStop,
          language, duration, position, steps, audio_data, sent,
          caller, calls, written, reads>>

\* ---------------------------------------------------------------- bounds
MaxRuns == 2

\* ------------------------------------------------------- text and paths
UpperLetters == <<"A","B","C","D","E","F","G","H","I","J","K","L","M",
                  "N","O","P","Q","R","S","T","U","V","W","X","Y","Z">>
LowerLetters == <<"a","b","c","d","e","f","g","h","i","j","k","l","m",
                  "n","o","p","q","r","s","t","u","v","w","x","y","z">>

LowerChar(c) ==
    IF \E i \in 1..Len(UpperLetters) : UpperLetters[i] = c
    THEN LowerLetters[CHOOSE i \in 1..Len(UpperLetters) : UpperLetters[i] = c]
    ELSE c

\* str.lower()
Lower(s) == [i \in 1..Len(s) |-> LowerChar(s[i])]

IsSpace(c) == c \in {" ", "\t", "\n"}

RECURSIVE LStrip(_)
LStrip(s) == IF s # <<>> /\ IsSpace(Head(s)) THEN LStrip(Tail(s)) ELSE s

RECURSIVE RStrip(_)
RStrip(s) ==
    IF s # <<>> /\ IsSpace(s[Len(s)]) THEN RStrip(SubSeq(s, 1, Len(s) - 1)) ELSE s

\* str.strip()
Strip(s) == RStrip(LStrip(s))

ext_mp4  == <<".","m","p","4">>
ext_avi  == <<".","a","v","i">>
ext_mkv  == <<".","m","k","v">>
ext_mov  == <<".","m","o","v">>
ext_wmv  == <<".","w","m","v">>
ext_flv  == <<".","f","l","v">>
ext_webm == <<".","w","e","b","m">>
ext_m4v  == <<".","m","4","v">>
ext_3gp  == <<".","3","g","p">>
ext_wav  == <<".","w","a","v">>
ext_mp3  == <<".","m","p","3">>
ext_m4a  == <<".","m","4","a">>
ext_ogg  == <<".","o","g","g">>
ext_flac == <<".","f","l","a","c">>
ext_opus == <<".","o","p","u","s">>
ext_aac  == <<".","a","a","c">>
ext_wma  == <<".","w","m","a">>

\* the list of video extensions without .webm
video_formats_NoWebm == {ext_mp4, ext_avi, ext_mkv, ext_mov, ext_wmv, ext_flv,
                         ext_m4v, ext_3gp}

\* convert_to_wav, line 162
video_formats == {ext_mp4, ext_avi, ext_mkv, ext_mov, ext_wmv, ext_flv,
                  ext_webm, ext_m4v, ext_3gp}

\* A path is a name with an extension; temporary names have id >= 1.
NoPath == [id |-> -1, ext |-> <<>>]
InputPath(e) == [id |-> 0, ext |-> e]
TempPath(n) == [id |-> n, ext |-> ext_wav]

\* os.path.splitext(path)[1]
splitext(p) == p.ext

\* ------------------------------------------------------------ audio data
NoAudio == [valid |-> FALSE, ch |-> 0, rate |-> 0, width |-> 0]
EmptyFile == NoAudio
Pcm(c, r, w) == [valid |-> TRUE, ch |-> c, rate |-> r, width |-> w]

\* what the fixed ffmpeg arguments -acodec pcm_s16le -ar 16000 -ac 1 produce
FfmpegPcm == Pcm(1, 16000, 16)

\* audio.set_channels(1).set_frame_rate(16000): the sample width is untouched
SetMono16k(a) == [a EXCEPT !.ch = 1, !.rate = 16000]

\* ------------------------------------------------------------ inputs
ext_MP4  == <<".","M","P","4">>
ext_WAV  == <<".","W","A","V">>
ext_xyz  == <<".","x","y","z">>
ext_none == <<>>

ext_WEBM == <<".","W","E","B","M">>
ext_3GP  == <<".","3","G","P">>
ext_Mp3  == <<".","M","p","3">>
ext_OGG  == <<".","O","G","G">>
ext_txt  == <<".","t","x","t">>

\* extensions of the input files the runs are given
Exts == video_formats \cup {ext_MP4, ext_wav, ext_WAV, ext_mp3, ext_flac,
                            ext_xyz, ext_none}

\* channel count, sample rate and sample width (bits) of the input's audio
Formats == {Pcm(1, 16000, 16), Pcm(2, 44100, 16), Pcm(1, 16000, 8)}

str_false == <<"f","a","l","s","e">>
str_True  == <<"T","r","u","e">>
str_true  == <<"t","r","u","e">>
ChunkModes == {str_false, str_True}

\* texts the recognition backend may return
Texts == {<<"h","i">>, <<" ">>, <<>>}

BackendResults ==
    {[kind |-> "text", text |-> t] : t \in Texts}
    \cup {[kind |-> k, text |-> <<>>] :
            k \in {"unknown_value", "request_error", "exception"}}

Preflights == {"ok", "noargs", "no_sr", "no_pydub", "nofile"}

\* The situation a run of the program starts in.  Inputs that a run with a
\* failing preflight never reads are fixed.
RunInputs ==
    {[pre |-> "ok", ext |-> e, fmt |-> f, valid |-> v, ffmpeg |-> ff, chunk |-> cm] :
        e \in Exts, f \in Formats, v \in BOOLEAN, ff \in BOOLEAN, cm \in ChunkModes}
    \cup
    {[pre |-> p, ext |-> ext_mp4, fmt |-> Pcm(1, 16000, 16), valid |-> TRUE,
      ffmpeg |-> TRUE, chunk |-> str_false] :
        p \in Preflights \ {"ok"}}

\* every extension convert_to_wav names, in several letter cases, and
\* extensions it does not name
RouteExts ==
    {ext_mp4, ext_avi, ext_mkv, ext_mov, ext_wmv, ext_flv, ext_webm, ext_m4v,
     ext_3gp, ext_MP4, ext_WEBM, ext_3GP, ext_wav, ext_WAV, ext_mp3, ext_m4a,
     ext_ogg, ext_flac, ext_opus, ext_aac, ext_wma, ext_Mp3, ext_OGG, ext_xyz,
     ext_txt, ext_none}

\* the situations of the runs that look at the choice of the route
RouteInputs ==
    {[pre |-> "ok", ext |-> e, fmt |-> Pcm(2, 44100, 16), valid |-> v, ffmpeg |-> ff,
      chunk |-> str_false] :
        e \in RouteExts, v \in BOOLEAN, ff \in BOOLEAN}

\* the situations of the runs that are replayed with the other chunk mode
ChunkInputs ==
    {[pre |-> "ok", ext |-> e, fmt |-> Pcm(2, 44100, 16), valid |-> v, ffmpeg |-> ff,
      chunk |-> cm] :
        e \in {ext_mp4, ext_WAV, ext_mp3, ext_xyz}, v \in BOOLEAN, ff \in BOOLEAN,
        cm \in {str_false, str_True, str_true}}
    \cup
    {[pre |-> p, ext |-> ext_mp4, fmt |-> Pcm(1, 16000, 16), valid |-> TRUE,
      ffmpeg |-> TRUE, chunk |-> str_True] :
        p \in Preflights \ {"ok"}}

InputContent(i) == [i.fmt EXCEPT !.valid = i.valid]

\* The behaviour of the environment during one run: the return code and the
\* output of the ffmpeg process, the success of audio.export, of opening and
\* reading the audio and of os.unlink, and the answer of the backend.  A run
\* whose script is not fixed meets any behaviour at every step.
FreeScript ==
    [fixed |-> FALSE, input |-> CHOOSE i \in RunInputs : TRUE, rc |-> 0,
     out |-> "written", export |-> TRUE, open |-> TRUE,
     backend |-> CHOOSE r \in BackendResults : TRUE, unlink |-> TRUE]

Scripts ==
    {[fixed |-> TRUE, input |-> i, rc |-> rc, out |-> out, export |-> ex,
      open |-> op, backend |-> r, unlink |-> ul] :
        i \in ChunkInputs, rc \in {0, 1}, out \in {"written", "empty", "missing"},
        ex \in BOOLEAN, op \in BOOLEAN, r \in BackendResults, ul \in BOOLEAN}

\* the outcomes of one call into the environment
Allowed(what, all) == IF script.fixed THEN {script[what]} ELSE all

\* no run was replayed before this one
NoPrevious == [chunk |-> <<>>, out |-> <<>>, code |-> -1, ffmpegCalls |-> 0,
               libCalls |-> 0, created |-> {}, deleted |-> {}, left |-> {},
               outcome |-> "none", ret |-> "none", unlinkFailed |-> FALSE]

\* record has not returned a buffer
NoBuffer == [from |-> -1, to |-> -1]

\* no request has been sent
NoRequest == [from |-> -1, to |-> -1, language |-> ""]

\* no request has been answered
NoAnswer == [kind |-> "none", text |-> <<>>]

\* ------------------------------------------------------------ groups
inputVars  == <<run, argc, sr_avail, pydub_avail, ffmpeg_installed, chunk_mode,
                media_file_path>>
fsVars     == <<files, content, nextTemp, created>>
stratVars  == <<ffmpegState, libState, ffmpegCalls, libCalls, ffmpegTemp, audio,
                decoder>>
localVars  == <<wav_file_path, temp_wav_path, convertResult>>
resultVars == <<handed, outcome, stdout, retval>>
cleanVars  == <<deleted, unlinkFailed>>
traceVars  == <<route, requests, backend, error, stderr>>
replayVars == <<script, previous>>
listenVars == <<variant, is_listening, audio_queue, producing, captured, current,
                transcribed, printed, failures, lpc, lateIterations, heldAtStop>>
recVars    == <<language, duration, position, steps, audio_data, sent>>
sessionVars == <<caller, calls, written, reads>>
\* the state of the file transcription program
fileVars   == <<pc, ffmpeg_available, exitCode, observed, inputVars, fsVars,
                stratVars, localVars, resultVars, cleanVars, traceVars, replayVars,
                recVars, sessionVars>>

\* ------------------------------------------------------------ Init
\* the state a run given the situation i starts in
Start(i) ==
    /\ pc = "main"
    /\ run = 1
    /\ argc = IF i.pre = "noargs" THEN 1 ELSE 4
    /\ sr_avail = (i.pre # "no_sr")
    /\ pydub_avail = (i.pre # "no_pydub")
    /\ ffmpeg_installed = i.ffmpeg
    /\ chunk_mode = i.chunk
    /\ media_file_path = InputPath(i.ext)
    /\ files = IF i.pre = "nofile" THEN {} ELSE {InputPath(i.ext)}
    /\ content = [p \in (IF i.pre = "nofile" THEN {} ELSE {InputPath(i.ext)})
                    |-> InputContent(i)]
    /\ nextTemp = 1
    /\ ffmpeg_available = FALSE
    /\ wav_file_path = NoPath
    /\ temp_wav_path = NoPath
    /\ audio = NoAudio
    /\ decoder = "none"
    /\ ffmpegState = "idle"
    /\ libState = "idle"
    /\ ffmpegCalls = 0
    /\ libCalls = 0
    /\ ffmpegTemp = NoPath
    /\ created = {}
    /\ deleted = {}
    /\ unlinkFailed = FALSE
    /\ convertResult = "none"
    /\ handed = NoAudio
    /\ outcome = "none"
    /\ stdout = <<>>
    /\ retval = "none"
    /\ exitCode = -1
    /\ observed = {}
    /\ route = "none"
    /\ requests = 0
    /\ backend = NoAnswer
    /\ error = "none"
    /\ stderr = {}
    /\ position = 0
    /\ steps = <<>>
    /\ audio_data = NoBuffer
    /\ sent = NoRequest
    /\ caller = "transcribe"
    /\ calls = <<>>
    /\ written = <<>>
    /\ reads = <<>>

\* the longest recording, in seconds
MaxSeconds == 3

\* argv[2] and the length of the recording in the input file
DefaultLanguage == "en-US"

FixedClip ==
    /\ language = DefaultLanguage
    /\ duration = MaxSeconds

\* no listener object exists
NoListener ==
    /\ variant = "none"
    /\ is_listening = FALSE
    /\ audio_queue = <<>>
    /\ producing = FALSE
    /\ captured = 0
    /\ current = 0
    /\ transcribed = <<>>
    /\ printed = <<>>
    /\ failures = {}
    /\ lpc = "none"
    /\ lateIterations = 0
    /\ heldAtStop = 0

Init ==
    /\ \E i \in RunInputs : Start(i)
    /\ script = FreeScript
    /\ previous = NoPrevious
    /\ NoListener
    /\ FixedClip

\* ------------------------------------------------------------ helpers
\* sys.exit(code), or falling off the end of main (code 0)
Exit(code, kind) ==
    /\ pc' = "exit"
    /\ exitCode' = code
    /\ stderr' = stderr \cup {IF code = 0 THEN "completed" ELSE kind}
    /\ observed' = observed \cup
         {[kind |-> kind, ret |-> retval, out |-> stdout, code |-> code]}

WriteFile(p, c) ==
    /\ files' = files \cup {p}
    /\ content' = [q \in files \cup {p} |-> IF q = p THEN c ELSE content[q]]

RemoveFile(p) ==
    /\ files' = files \ {p}
    /\ content' = [q \in files \ {p} |-> content[q]]

\* tempfile.NamedTemporaryFile(suffix='.wav', delete=False): a new, empty file
NamedTemporaryFile ==
    /\ WriteFile(TempPath(nextTemp), EmptyFile)
    /\ nextTemp' = nextTemp + 1
    /\ created' = created \cup {TempPath(nextTemp)}

\* the statements after the failed one carried out all the same
AfterRaise_GoesOn == "open_audio"

\* lines 232-291: an exception raised in the try block, before the audio is
\* opened, skips the rest of the block; after its handler comes the finally
\* block
AfterRaise == "finally"

\* an exception leaving convert_to_wav (lines 224-230) lands in the generic
\* handler of transcribe_media_file, or at the caller when the session's user
\* made the call
ConvertRaises(e) ==
    /\ convertResult' = "failed"
    /\ outcome' = IF caller = "transcribe" THEN "error" ELSE outcome
    /\ error' = e
    /\ stderr' = stderr \cup {"error"}
    /\ pc' = IF caller = "transcribe" THEN AfterRaise ELSE "after_convert"

\* ------------------------------------------------------------ main
\* main, lines 305-307: usage error when no media path is given
MainArgs ==
    /\ pc = "main"
    /\ IF argc < 2
       THEN Exit(1, "usage")
       ELSE /\ pc' = "check_dependencies"
            /\ UNCHANGED <<exitCode, observed, stderr>>
    /\ UNCHANGED <<recVars, sessionVars, listenVars, inputVars, replayVars, route, requests, backend, error, fsVars, stratVars, localVars, resultVars, cleanVars,
                   ffmpeg_available>>

\* check_dependencies: only SpeechRecognition and pydub are critical
DependenciesOk == sr_avail /\ pydub_avail

\* main, lines 310-313
CheckDependencies ==
    /\ pc = "check_dependencies"
    /\ IF ~DependenciesOk
       THEN Exit(1, "deps_missing")
       ELSE /\ pc' = "main_exists"
            /\ UNCHANGED <<exitCode, observed, stderr>>
    /\ UNCHANGED <<recVars, sessionVars, listenVars, inputVars, replayVars, route, requests, backend, error, fsVars, stratVars, localVars, resultVars, cleanVars,
                   ffmpeg_available>>

\* the existence check of main left out
InputMissing_Unchecked == FALSE

\* main, line 323: not os.path.exists(media_file_path)
InputMissing == media_file_path \notin files

\* main, lines 323-325
MainExists ==
    /\ pc = "main_exists"
    /\ IF InputMissing
       THEN Exit(1, "input_not_found")
       ELSE /\ pc' = "construct"
            /\ UNCHANGED <<exitCode, observed, stderr>>
    /\ UNCHANGED <<recVars, sessionVars, listenVars, inputVars, replayVars, route, requests, backend, error, fsVars, stratVars, localVars, resultVars, cleanVars,
                   ffmpeg_available>>

\* MediaTranscriber.check_ffmpeg
check_ffmpeg == ffmpeg_installed

\* MediaTranscriber.__init__
Construct ==
    /\ pc = "construct"
    /\ ffmpeg_available' = check_ffmpeg
    /\ written' = Append(written, check_ffmpeg)
    /\ pc' = "dispatch"
    /\ UNCHANGED <<recVars, caller, calls, reads, listenVars, inputVars, replayVars, traceVars, fsVars, stratVars, localVars, resultVars, cleanVars,
                   exitCode, observed>>

\* chunk mode left as a stub that transcribes nothing
DispatchTarget_ChunkStub(chunk) == IF chunk THEN "returned" ELSE "transcribe"

\* main, lines 330-334: both branches call transcribe_media_file
DispatchTarget(chunk) == IF chunk THEN "transcribe" ELSE "transcribe"

\* main, lines 330-334
Dispatch ==
    /\ pc = "dispatch"
    /\ pc' = DispatchTarget(Lower(chunk_mode) = str_true)
    /\ UNCHANGED <<recVars, sessionVars, listenVars, inputVars, replayVars, traceVars, fsVars, stratVars, localVars, resultVars, cleanVars,
                   ffmpeg_available, exitCode, observed>>

\* ------------------------------------------------- transcribe_media_file
\* lines 236-245: the existence check at the head of the try block
TranscribeStart ==
    /\ pc = "transcribe"
    /\ IF media_file_path \notin files
       THEN /\ outcome' = "error"
            /\ error' = "file_not_found"
            /\ stderr' = stderr \cup {"error"}
            /\ pc' = AfterRaise
       ELSE /\ pc' = "convert_to_wav"
            /\ UNCHANGED <<outcome, error, stderr>>
    /\ UNCHANGED <<recVars, sessionVars, listenVars, inputVars, replayVars, route, requests, backend, fsVars, stratVars, localVars, cleanVars, handed,
                   stdout, retval, ffmpeg_available, exitCode, observed>>

\* ------------------------------------------------------- convert_to_wav
IsVideo(p) == Lower(splitext(p)) \in video_formats

\* the extension compared without lowercasing
IsWav_CaseSensitive(p) == splitext(p) = ext_wav

IsWav(p) == Lower(splitext(p)) = ext_wav

\* the probe result ignored
UseFfmpeg_Always == TRUE

\* lines 164-171: the transcoder is tried only when the cached probe says so
UseFfmpeg == ffmpeg_available

\* lines 185-204: the decoder pydub is asked for
DecoderFor(p) ==
    LET e == Lower(splitext(p)) IN
    CASE e = ext_mp3  -> "mp3"
      [] e = ext_m4a  -> "m4a"
      [] e = ext_ogg  -> "ogg"
      [] e = ext_flac -> "flac"
      [] e = ext_opus -> "opus"
      [] e = ext_aac  -> "aac"
      [] e = ext_wma  -> "wma"
      [] e = ext_webm -> "webm"
      [] OTHER        -> "auto"

\* lines 154-176: the import, the extension and the choice of the route
ConvertRoute ==
    /\ pc = "convert_to_wav"
    /\ IF ~pydub_avail
       THEN /\ ConvertRaises("pydub_not_available")
            /\ UNCHANGED <<wav_file_path, route, reads>>
       ELSE IF IsVideo(media_file_path)
       THEN /\ route' = "video"
            /\ reads' = Append(reads, ffmpeg_available)
            /\ pc' = IF UseFfmpeg THEN "ffmpeg_create" ELSE "simple_create"
            /\ UNCHANGED <<wav_file_path, convertResult, outcome, error, stderr>>
       ELSE IF IsWav(media_file_path)
       THEN /\ route' = "wav"
            /\ wav_file_path' = media_file_path
            /\ convertResult' = "ok"
            /\ pc' = "after_convert"
            /\ UNCHANGED <<outcome, error, stderr, reads>>
       ELSE /\ route' = "audio"
            /\ pc' = "audio_load"
            /\ UNCHANGED <<wav_file_path, convertResult, outcome, error, stderr, reads>>
    /\ UNCHANGED <<recVars, caller, calls, written, listenVars, inputVars, replayVars, requests, backend, fsVars, stratVars, cleanVars, temp_wav_path, handed,
                   stdout, retval, ffmpeg_available, exitCode, observed>>

\* extract_audio_from_video_ffmpeg, lines 117-122: the temporary file
FfmpegCreateTemp ==
    /\ pc = "ffmpeg_create"
    /\ NamedTemporaryFile
    /\ ffmpegTemp' = TempPath(nextTemp)
    /\ ffmpegState' = "running"
    /\ ffmpegCalls' = ffmpegCalls + 1
    /\ pc' = "ffmpeg_run"
    /\ UNCHANGED <<recVars, sessionVars, listenVars, inputVars, replayVars, traceVars, localVars, resultVars, cleanVars, libState, libCalls,
                   audio, decoder, ffmpeg_available, exitCode, observed>>

\* lines 142-144: the strategy raises on a non-zero return code only
FfmpegRaises(rc, out) == rc # 0

\* the pydub strategy run whether or not the ffmpeg strategy raised
FallsBack_Always(raised) == TRUE

\* convert_to_wav, lines 165-169: the except clause around the ffmpeg strategy
FallsBack(raised) == raised

\* a failed attempt marks the transcoder as unavailable
AvailableAfter_Demoted(raised) == ffmpeg_available /\ ~raised

\* lines 164-171: the attempt and its except clause assign nothing to
\* self.ffmpeg_available
AvailableAfter(raised) == ffmpeg_available

\* extract_audio_from_video_ffmpeg, lines 124-150, and the fallback decision of
\* convert_to_wav; rc and out are what the external process did
FfmpegRun ==
    /\ pc = "ffmpeg_run"
    /\ \E rc \in Allowed("rc", {0, 1}),
          out \in Allowed("out", {"written", "empty", "missing"}) :
        /\ CASE out = "written" -> WriteFile(ffmpegTemp, FfmpegPcm)
             [] out = "empty"   -> WriteFile(ffmpegTemp, EmptyFile)
             [] out = "missing" -> RemoveFile(ffmpegTemp)
        /\ ffmpegState' = IF FfmpegRaises(rc, out) THEN "failed" ELSE "ok"
        /\ error' = IF FfmpegRaises(rc, out) THEN "ffmpeg_failed" ELSE error
        /\ ffmpeg_available' = AvailableAfter(FfmpegRaises(rc, out))
        /\ IF FallsBack(FfmpegRaises(rc, out))
           THEN /\ pc' = "simple_create"
                /\ UNCHANGED <<wav_file_path, convertResult>>
           ELSE /\ wav_file_path' = ffmpegTemp
                /\ convertResult' = "ok"
                /\ pc' = "after_convert"
    /\ UNCHANGED <<recVars, sessionVars, listenVars, inputVars, replayVars, route, requests, backend, stderr, nextTemp, created, libState, ffmpegCalls, libCalls,
                   ffmpegTemp, audio, decoder, temp_wav_path, resultVars, cleanVars,
                   exitCode, observed>>

\* the exception that made convert_to_wav fall back raised again
Propagated_First(pending, new) == IF pending # "none" THEN pending ELSE new

\* lines 167-169: an exception raised while the ffmpeg exception is handled
\* replaces it; convert_to_wav re-raises what reaches it (lines 228-230)
Propagated(pending, new) == new

\* the temporary file most recently created by NamedTemporaryFile
temp_audio_path == TempPath(nextTemp - 1)

\* extract_audio_from_video_simple, lines 89-97: the temporary file
SimpleCreateTemp ==
    /\ pc = "simple_create"
    /\ NamedTemporaryFile
    /\ libState' = "running"
    /\ libCalls' = libCalls + 1
    /\ decoder' = "auto"
    /\ pc' = "simple_load"
    /\ UNCHANGED <<recVars, sessionVars, listenVars, inputVars, replayVars, traceVars, localVars, resultVars, cleanVars, ffmpegState,
                   ffmpegCalls, ffmpegTemp, audio, ffmpeg_available, exitCode,
                   observed>>

\* extract_audio_from_video_simple, lines 99-103: AudioSegment.from_file
SimpleLoad ==
    /\ pc = "simple_load"
    /\ IF content[media_file_path].valid
       THEN /\ audio' = SetMono16k(content[media_file_path])
            /\ pc' = "simple_export"
            /\ UNCHANGED <<libState, convertResult, outcome, error, stderr>>
       ELSE /\ libState' = "failed"
            /\ ConvertRaises(Propagated(error, "pydub_decode"))
            /\ UNCHANGED audio
    /\ UNCHANGED <<recVars, sessionVars, listenVars, inputVars, replayVars, route, requests, backend, fsVars, cleanVars, ffmpegState, ffmpegCalls, libCalls,
                   ffmpegTemp, decoder, wav_file_path, temp_wav_path, handed, stdout,
                   retval, ffmpeg_available, exitCode, observed>>

\* extract_audio_from_video_simple, lines 105-112: audio.export
SimpleExport ==
    /\ pc = "simple_export"
    /\ \E ok \in Allowed("export", BOOLEAN) :
        IF ok
        THEN /\ WriteFile(temp_audio_path, audio)
             /\ libState' = "ok"
             /\ wav_file_path' = temp_audio_path
             /\ convertResult' = "ok"
             /\ pc' = "after_convert"
             /\ UNCHANGED <<outcome, error, stderr>>
        ELSE /\ libState' = "failed"
             /\ ConvertRaises(Propagated(error, "pydub_export"))
             /\ UNCHANGED <<files, content, wav_file_path>>
    /\ UNCHANGED <<recVars, sessionVars, listenVars, inputVars, replayVars, route, requests, backend, nextTemp, created, cleanVars,
                   ffmpegState, ffmpegCalls,
                   libCalls, ffmpegTemp, audio, decoder, temp_wav_path, handed,
                   stdout, retval, ffmpeg_available, exitCode, observed>>

\* convert_to_wav, lines 178-212: load the audio file with pydub
AudioLoad ==
    /\ pc = "audio_load"
    /\ libCalls' = libCalls + 1
    /\ decoder' = DecoderFor(media_file_path)
    /\ IF content[media_file_path].valid
       THEN /\ audio' = SetMono16k(content[media_file_path])
            /\ libState' = "running"
            /\ pc' = "audio_create"
            /\ UNCHANGED <<convertResult, outcome, error, stderr>>
       ELSE /\ libState' = "failed"
            /\ ConvertRaises("could_not_load_decode")
            /\ UNCHANGED audio
    /\ UNCHANGED <<recVars, sessionVars, listenVars, inputVars, replayVars, route, requests, backend, fsVars, cleanVars, ffmpegState, ffmpegCalls,
                   ffmpegTemp, wav_file_path, temp_wav_path, handed, stdout,
                   retval, ffmpeg_available, exitCode, observed>>

\* convert_to_wav, lines 214-215: the temporary file of the audio route
AudioCreateTemp ==
    /\ pc = "audio_create"
    /\ NamedTemporaryFile
    /\ pc' = "audio_export"
    /\ UNCHANGED <<recVars, sessionVars, listenVars, inputVars, replayVars, traceVars, stratVars, localVars, resultVars, cleanVars,
                   ffmpeg_available, exitCode, observed>>

\* convert_to_wav, lines 216-223: audio.export
AudioExport ==
    /\ pc = "audio_export"
    /\ \E ok \in Allowed("export", BOOLEAN) :
        IF ok
        THEN /\ WriteFile(temp_audio_path, audio)
             /\ libState' = "ok"
             /\ wav_file_path' = temp_audio_path
             /\ convertResult' = "ok"
             /\ pc' = "after_convert"
             /\ UNCHANGED <<outcome, error, stderr>>
        ELSE /\ libState' = "failed"
             /\ ConvertRaises("could_not_load_export")
             /\ UNCHANGED <<files, content, wav_file_path>>
    /\ UNCHANGED <<recVars, sessionVars, listenVars, inputVars, replayVars, route, requests, backend, nextTemp, created, cleanVars, ffmpegState, ffmpegCalls,
                   libCalls, ffmpegTemp, audio, decoder, temp_wav_path, handed,
                   stdout, retval, ffmpeg_available, exitCode, observed>>

\* ------------------------------------- transcribe_media_file, continued
\* every path returned by convert_to_wav is remembered for cleanup
OwnedTemp_Always == wav_file_path

\* lines 249-250: only a path other than the input is remembered for cleanup
OwnedTemp == IF wav_file_path # media_file_path THEN wav_file_path ELSE NoPath

\* lines 248-252
AfterConvert ==
    /\ pc = "after_convert"
    /\ caller = "transcribe"
    /\ temp_wav_path' = OwnedTemp
    /\ pc' = "open_audio"
    /\ UNCHANGED <<recVars, sessionVars, listenVars, inputVars, replayVars, traceVars, fsVars, stratVars, cleanVars, wav_file_path,
                   convertResult, resultVars, ffmpeg_available, exitCode, observed>>

\* line 255: sr.AudioFile(wav_file_path) is entered; a missing or unreadable
\* file raises, and so may the call itself
OpenAudio ==
    /\ pc = "open_audio"
    /\ \E ok \in Allowed("open", BOOLEAN) :
        IF ok /\ wav_file_path \in files /\ content[wav_file_path].valid
        THEN /\ position' = 0
             /\ steps' = Append(steps, "open")
             /\ pc' = "metadata"
             /\ UNCHANGED <<outcome, error, stderr>>
        ELSE /\ outcome' = "error"
             /\ error' = "audio_unreadable"
             /\ stderr' = stderr \cup {"error"}
             /\ pc' = "finally"
             /\ UNCHANGED <<position, steps>>
    /\ UNCHANGED <<sessionVars, listenVars, inputVars, replayVars, route, requests, backend, fsVars, stratVars, localVars, cleanVars, stdout,
                   handed, retval, ffmpeg_available, exitCode, observed,
                   language, duration, audio_data, sent>>

\* lines 258-261: DURATION, SAMPLE_RATE and SAMPLE_WIDTH are printed
ReadMetadata ==
    /\ pc = "metadata"
    /\ steps' = Append(steps, "metadata")
    /\ pc' = "calibrate"
    /\ UNCHANGED <<sessionVars, listenVars, inputVars, replayVars, traceVars, fsVars, stratVars, localVars, cleanVars, resultVars,
                   ffmpeg_available, exitCode, observed,
                   language, duration, position, audio_data, sent>>

\* the seconds adjust_for_ambient_noise is asked to listen to
CalibrationSeconds == 1

Min(a, b) == IF a < b THEN a ELSE b

\* line 265: adjust_for_ambient_noise(source, duration=1.0) reads the source
\* it is given from where the source stands, for that long or to its end
AfterCalibration(pos, seconds, total) == Min(pos + seconds, total)

\* lines 264-265
Calibrate ==
    /\ pc = "calibrate"
    /\ position' = AfterCalibration(position, CalibrationSeconds, duration)
    /\ steps' = Append(steps, "calibrate")
    /\ pc' = "record"
    /\ UNCHANGED <<sessionVars, listenVars, inputVars, replayVars, traceVars, fsVars, stratVars, localVars, cleanVars, resultVars,
                   ffmpeg_available, exitCode, observed,
                   language, duration, audio_data, sent>>

\* lines 268-269: recognizer.record(source) reads the same source from where it
\* stands to its end
Record ==
    /\ pc = "record"
    /\ audio_data' = [from |-> position, to |-> duration]
    /\ position' = duration
    /\ handed' = content[wav_file_path]
    /\ steps' = Append(steps, "record")
    /\ pc' = "recognize"
    /\ UNCHANGED <<sessionVars, listenVars, inputVars, replayVars, traceVars, fsVars, stratVars, localVars, cleanVars, outcome,
                   stdout, retval, ffmpeg_available, exitCode, observed,
                   language, duration, sent>>

Line(tag, text) == [tag |-> tag, text |-> text]

\* the closing sentinel forgotten
Framed_NoEnd(text) == << Line("TRANSCRIPTION_START", <<>>), Line("text", text) >>

\* lines 277-279
Framed(text) == << Line("TRANSCRIPTION_START", <<>>), Line("text", text),
                   Line("TRANSCRIPTION_END", <<>>) >>

\* the text tested without trimming
HasText_Untrimmed(text) == text # <<>>

\* line 276: if text.strip()
HasText(text) == Strip(text) # <<>>

\* the request sent again after a backend request error
AfterRecognize_Retry(kind) == IF kind = "request_error" THEN "recognize" ELSE "finally"

\* lines 274-291: after the request, whatever it gave, control reaches the
\* finally block; no handler loops back to the request
AfterRecognize(kind) == "finally"

\* lines 271-290: the recognition request and the handlers of the try block
Recognize ==
    /\ pc = "recognize"
    /\ \E r \in Allowed("backend", BackendResults) :
        /\ requests' = requests + 1
        /\ sent' = [from |-> audio_data.from, to |-> audio_data.to,
                    language |-> language]
        /\ steps' = Append(steps, "request")
        /\ backend' = r
        /\ CASE r.kind = "text" ->
                IF HasText(r.text)
                THEN /\ stdout' = stdout \o Framed(r.text)
                     /\ outcome' = "text"
                     /\ UNCHANGED <<error, stderr>>
                ELSE /\ outcome' = "nospeech"
                     /\ stderr' = stderr \cup {"no_speech"}
                     /\ UNCHANGED <<stdout, error>>
             [] r.kind = "unknown_value" ->
                /\ outcome' = "nospeech"
                /\ error' = "UnknownValueError"
                /\ stderr' = stderr \cup {"unintelligible"}
                /\ UNCHANGED stdout
             [] r.kind = "request_error" ->
                /\ outcome' = "request_error"
                /\ error' = "RequestError"
                /\ stderr' = stderr \cup {"request_error"}
                /\ UNCHANGED stdout
             [] r.kind = "exception" ->
                /\ outcome' = "error"
                /\ error' = "recognition_exception"
                /\ stderr' = stderr \cup {"error"}
                /\ UNCHANGED stdout
        /\ pc' = AfterRecognize(r.kind)
    /\ UNCHANGED <<language, duration, position, audio_data, sessionVars, listenVars, inputVars, replayVars, route, fsVars, stratVars, localVars, cleanVars, handed,
                   retval, ffmpeg_available, exitCode, observed>>

\* cleanup written at the end of the try body: skipped when a handler ran
ShouldCleanup_OnSuccessOnly ==
    /\ temp_wav_path # NoPath /\ temp_wav_path \in files
    /\ outcome \in {"text", "nospeech"}

\* line 293: the guard of the cleanup
ShouldCleanup == temp_wav_path # NoPath /\ temp_wav_path \in files

\* only the recognizer's own exceptions handled
Caught_RecognitionOnly(e) == e \in {"none", "UnknownValueError", "RequestError"}

\* lines 283-290: UnknownValueError, RequestError and, last, any Exception
\* have a handler, so nothing raised in the try block leaves the function
Caught(e) == TRUE

\* a failing os.unlink raised out of the finally block
CleanupRaises_Escalates(failed) == failed

\* lines 294-298: the try/except around os.unlink logs the failure and goes on
CleanupRaises(failed) == FALSE

\* lines 291-298: the finally block; os.unlink may fail, which is only logged
Finally ==
    /\ pc = "finally"
    /\ IF ShouldCleanup
       THEN \E ok \in Allowed("unlink", BOOLEAN) :
               IF ok
               THEN /\ RemoveFile(temp_wav_path)
                    /\ deleted' = deleted \cup {temp_wav_path}
                    /\ UNCHANGED unlinkFailed
               ELSE /\ unlinkFailed' = TRUE
                    /\ UNCHANGED <<files, content, deleted>>
       ELSE UNCHANGED <<files, content, deleted, unlinkFailed>>
    /\ stderr' = IF unlinkFailed' THEN stderr \cup {"cleanup_failed"} ELSE stderr
    /\ retval' = IF Caught(error) /\ ~CleanupRaises(unlinkFailed')
                  THEN "None" ELSE "raised"
    /\ pc' = "returned"
    /\ UNCHANGED <<recVars, sessionVars, listenVars, inputVars, replayVars, route, requests, backend, error, nextTemp, created, stratVars, localVars, handed,
                   outcome, stdout, ffmpeg_available, exitCode, observed>>

\* main, lines 327-341: when transcribe_media_file returned the process ends
\* with 0; an exception out of it is fatal and the process ends with 1
MainReturn ==
    /\ pc = "returned"
    /\ IF retval = "None" THEN Exit(0, outcome) ELSE Exit(1, "fatal")
    /\ UNCHANGED <<recVars, sessionVars, listenVars, inputVars, replayVars, route, requests, backend, error, fsVars, stratVars, localVars, resultVars, cleanVars,
                   ffmpeg_available>>

\* a new run of the program in the situation i
Restart(i) ==
    /\ pc' = "main"
    /\ run' = run + 1
    /\ argc' = IF i.pre = "noargs" THEN 1 ELSE 4
    /\ sr_avail' = (i.pre # "no_sr")
    /\ pydub_avail' = (i.pre # "no_pydub")
    /\ ffmpeg_installed' = i.ffmpeg
    /\ chunk_mode' = i.chunk
    /\ media_file_path' = InputPath(i.ext)
    /\ files' = IF i.pre = "nofile" THEN {} ELSE {InputPath(i.ext)}
    /\ content' = [p \in (IF i.pre = "nofile" THEN {} ELSE {InputPath(i.ext)})
                     |-> InputContent(i)]
    /\ nextTemp' = 1
    /\ ffmpeg_available' = FALSE
    /\ wav_file_path' = NoPath
    /\ temp_wav_path' = NoPath
    /\ audio' = NoAudio
    /\ decoder' = "none"
    /\ ffmpegState' = "idle"
    /\ libState' = "idle"
    /\ ffmpegCalls' = 0
    /\ libCalls' = 0
    /\ ffmpegTemp' = NoPath
    /\ created' = {}
    /\ deleted' = {}
    /\ unlinkFailed' = FALSE
    /\ convertResult' = "none"
    /\ handed' = NoAudio
    /\ outcome' = "none"
    /\ stdout' = <<>>
    /\ retval' = "none"
    /\ exitCode' = -1
    /\ route' = "none"
    /\ requests' = 0
    /\ backend' = NoAnswer
    /\ error' = "none"
    /\ stderr' = {}
    /\ position' = 0
    /\ steps' = <<>>
    /\ audio_data' = NoBuffer
    /\ sent' = NoRequest
    /\ caller' = "transcribe"
    /\ calls' = <<>>
    /\ written' = <<>>
    /\ reads' = <<>>

\* the program is started again, in a fresh situation
NextRun ==
    /\ pc = "exit"
    /\ run < MaxRuns
    /\ \E i \in RunInputs : Restart(i)
    /\ UNCHANGED <<observed, replayVars, listenVars, language, duration>>

Next ==
    \/ MainArgs
    \/ CheckDependencies
    \/ MainExists
    \/ Construct
    \/ Dispatch
    \/ TranscribeStart
    \/ ConvertRoute
    \/ FfmpegCreateTemp
    \/ FfmpegRun
    \/ SimpleCreateTemp
    \/ SimpleLoad
    \/ SimpleExport
    \/ AudioLoad
    \/ AudioCreateTemp
    \/ AudioExport
    \/ AfterConvert
    \/ OpenAudio
    \/ ReadMetadata
    \/ Calibrate
    \/ Record
    \/ Recognize
    \/ Finally
    \/ MainReturn
    \/ NextRun

Spec == Init /\ [][Next]_vars

\* ------------------------------------------------------------ properties
\* transcribe_media_file has returned to main
Returned == pc \in {"returned", "exit"} /\ retval = "None"

VideoInput == media_file_path.ext \in video_formats \cup {ext_MP4}

WavInput == media_file_path.ext \in {ext_wav, ext_WAV}

\* C1: one convert_to_wav invocation creates at most one temporary file; when
\* the ffmpeg attempt fails and pydub takes over, the file of the failed
\* attempt never coexists with the fallback's file and is gone once
\* convert_to_wav has ended.
C1_NoLeakOnFallback ==
    /\ Cardinality(created \cap files) <= 1
    /\ (ffmpegState = "failed" /\ convertResult # "none") => ffmpegTemp \notin files

\* C2: when transcribe_media_file has returned (and no unlink failed), no
\* temporary file created by the invocation exists any more, whatever the
\* outcome.
C2_EveryTempCleaned ==
    (Returned /\ ~unlinkFailed) => created \cap files = {}

\* C3 as stated: after a successful conversion that returned an owned
\* temporary WAV, the file no longer exists once transcribe_media_file has
\* returned, whatever recognition did.
C3_OwnedTempGone ==
    (Returned /\ convertResult = "ok" /\ temp_wav_path # NoPath)
        => temp_wav_path \notin files

\* C3 amended: after a successful conversion that returned an owned temporary
\* WAV, the file no longer exists once transcribe_media_file has returned,
\* whatever recognition did, unless os.unlink itself failed (which is only
\* logged, and the file stays).
C3_OwnedTempGoneUnlessUnlinkFails ==
    (Returned /\ convertResult = "ok" /\ temp_wav_path # NoPath)
        => /\ ~unlinkFailed => temp_wav_path \notin files
           /\ unlinkFailed => temp_wav_path \in files

C3_Witness ==
    /\ Returned
    /\ convertResult = "ok"
    /\ temp_wav_path \in created
    /\ temp_wav_path \in deleted
    /\ temp_wav_path \notin files
    /\ outcome = "request_error"

\* C4: the program unlinks only temporary files it created in this run, never
\* the input; an input that went through transcribe_media_file (a .wav input
\* in any letter case included) still exists afterwards.
C4_InputNeverDeleted ==
    /\ deleted \subseteq created
    /\ media_file_path \notin deleted
    /\ Returned => media_file_path \in files

C4_Witness ==
    /\ pc = "exit"
    /\ Returned
    /\ media_file_path.ext = ext_WAV
    /\ wav_file_path = media_file_path
    /\ outcome = "text"
    /\ media_file_path \in files

\* C5: for a .wav input convert_to_wav returns the input path itself, which is
\* not remembered as a temporary, and neither ffmpeg nor pydub is invoked and
\* no temporary file is created.
C5_WavShortCircuit ==
    WavInput =>
        /\ created = {}
        /\ ffmpegCalls = 0
        /\ libCalls = 0
        /\ convertResult # "failed"
        /\ convertResult = "ok" => wav_file_path = media_file_path
        /\ temp_wav_path = NoPath

C5_Witness ==
    /\ media_file_path.ext = ext_WAV
    /\ pc = "open_audio"
    /\ convertResult = "ok"
    /\ wav_file_path = media_file_path
    /\ created = {}

\* C6: for a video input with ffmpeg available, pydub decoding is invoked only
\* after the ffmpeg invocation of the same call ended in failure: the two
\* never run at the same time, and pydub is not invoked when ffmpeg succeeded.
C6_FallbackOnlyAfterFailure ==
    (VideoInput /\ ffmpeg_installed) =>
        /\ (libCalls > 0 \/ libState # "idle") => ffmpegState = "failed"
        /\ ~(ffmpegState = "running" /\ libState = "running")
        /\ ffmpegState = "ok" => (libCalls = 0 /\ libState = "idle")

C6_Witness ==
    /\ VideoInput
    /\ ffmpeg_installed
    /\ ffmpegState = "failed"
    /\ ffmpegCalls = 1
    /\ libState = "ok"
    /\ libCalls = 1

\* C7 as stated: for a video input with ffmpeg reported unavailable, pydub
\* decoding is invoked directly and ffmpeg never; on success the result is an
\* owned temporary WAV that no longer exists after transcription.
C7_DirectLibraryDecode ==
    (VideoInput /\ ~ffmpeg_installed) =>
        /\ ffmpegCalls = 0 /\ ffmpegState = "idle"
        /\ convertResult # "none" => libCalls = 1
        /\ convertResult = "ok" =>
              /\ wav_file_path \in created
              /\ pc # "after_convert" => temp_wav_path = wav_file_path
              /\ Returned => wav_file_path \notin files

\* C7 amended: for a video input with ffmpeg reported unavailable, pydub
\* decoding is invoked directly and ffmpeg never; on success the result is an
\* owned temporary WAV, which no longer exists after transcription unless
\* os.unlink itself failed.
C7_DirectLibraryDecodeUnlessUnlinkFails ==
    (VideoInput /\ ~ffmpeg_installed) =>
        /\ ffmpegCalls = 0 /\ ffmpegState = "idle"
        /\ convertResult # "none" => libCalls = 1
        /\ convertResult = "ok" =>
              /\ wav_file_path \in created
              /\ pc # "after_convert" => temp_wav_path = wav_file_path
              /\ (Returned /\ ~unlinkFailed) => wav_file_path \notin files

C7_Witness ==
    /\ VideoInput
    /\ ~ffmpeg_installed
    /\ Returned
    /\ ffmpegCalls = 0
    /\ libState = "ok"
    /\ convertResult = "ok"
    /\ wav_file_path \in deleted
    /\ wav_file_path \notin files

\* C8: the ffmpeg strategy returns a path only when the process exited with 0
\* and left a non-empty output file: whenever it returned normally, the file
\* it returned exists and is not empty.
C8_NoEmptySuccess ==
    (pc = "after_convert" /\ ffmpegState = "ok") =>
        /\ wav_file_path \in files
        /\ content[wav_file_path] # EmptyFile

\* C9: after any successful conversion, whatever the route and the format of
\* the input, the audio handed to recognition is mono, 16000 Hz, 16-bit.
C9_HandedAudioNormalized ==
    pc = "recognize" =>
        /\ handed.ch = 1
        /\ handed.rate = 16000
        /\ handed.width = 16

\* what the caller of a finished run observed
Obs(o) == <<o.ret, o.out, o.code>>

OutcomeClass(k) ==
    CASE k = "text"     -> "text"
      [] k = "nospeech" -> "nospeech"
      [] OTHER          -> "failure"

\* C10: the outcomes text, no speech and failure never collapse into one
\* representation: two runs that ended in different outcomes differ in what
\* their caller observes (return value, primary stream, exit code); in
\* particular a no-speech run differs from a run that failed in conversion or
\* with a backend request error.
C10_OutcomesDistinguishable ==
    \A a \in observed, b \in observed :
        OutcomeClass(a.kind) # OutcomeClass(b.kind) => Obs(a) # Obs(b)

\* every character of the text is whitespace (the empty text included)
Blank(t) == \A i \in 1..Len(t) : t[i] \in {" ", "\t", "\n"}

\* C11: the primary stream is either empty or exactly the line
\* TRANSCRIPTION_START, the recognized text and the line TRANSCRIPTION_END,
\* written once; it is non-empty exactly when the backend returned a text that
\* is not blank; nothing else is ever written to it.
C11_PrimaryStreamFraming ==
    /\ \/ stdout = <<>>
       \/ stdout = << [tag |-> "TRANSCRIPTION_START", text |-> <<>>],
                      [tag |-> "text", text |-> backend.text],
                      [tag |-> "TRANSCRIPTION_END", text |-> <<>>] >>
    /\ stdout # <<>> <=> (backend.kind = "text" /\ ~Blank(backend.text))

C11_Witness ==
    /\ pc = "exit"
    /\ exitCode = 0
    /\ backend = [kind |-> "text", text |-> <<"h", "i">>]
    /\ Len(stdout) = 3
    /\ stdout[2].text = <<"h", "i">>

\* C12: the exit code is 0 on text or no speech, and 1 on a missing input, on
\* an existing input that no strategy can decode and on a missing critical
\* dependency; exit code 1 has no other cause (a missing ffmpeg alone never
\* gives it).
C12_ExitCodes ==
    pc = "exit" =>
        /\ outcome \in {"text", "nospeech"} => exitCode = 0
        /\ media_file_path \notin files => exitCode = 1
        /\ convertResult = "failed" => exitCode = 1
        /\ ~(sr_avail /\ pydub_avail) => exitCode = 1
        /\ exitCode = 1 => \/ argc < 2
                           \/ ~(sr_avail /\ pydub_avail)
                           \/ media_file_path \notin files
                           \/ convertResult = "failed"

\* C13: when the backend signals unintelligible speech or returns a blank
\* text, the run ends the same way: no-speech outcome, no failure reported,
\* exit code 0 and an empty primary stream.
C13_NoSpeechSameOutcome ==
    (pc = "exit" /\ (\/ backend.kind = "unknown_value"
                     \/ backend.kind = "text" /\ Blank(backend.text))) =>
        /\ outcome = "nospeech"
        /\ stdout = <<>>
        /\ exitCode = 0
        /\ stderr \cap {"error", "request_error"} = {}
        /\ [kind |-> "nospeech", ret |-> "None", out |-> <<>>, code |-> 0] \in observed

C13_Witness ==
    /\ pc = "exit"
    /\ backend = [kind |-> "text", text |-> <<" ">>]
    /\ outcome = "nospeech"
    /\ stdout = <<>>
    /\ exitCode = 0

\* C14: for a video input with ffmpeg available, when ffmpeg and pydub both
\* fail, convert_to_wav fails with the pydub error (the last one), and each
\* strategy was invoked exactly once.
C14_LastErrorNoRetry ==
    /\ ffmpegCalls <= 1
    /\ (VideoInput /\ ffmpeg_installed /\ convertResult = "failed") =>
          /\ ffmpegCalls = 1
          /\ libCalls = 1
          /\ ffmpegState = "failed"
          /\ libState = "failed"
          /\ error \in {"pydub_decode", "pydub_export"}

C14_Witness ==
    /\ pc = "exit"
    /\ VideoInput
    /\ ffmpeg_installed
    /\ convertResult = "failed"
    /\ ffmpegCalls = 1
    /\ libCalls = 1
    /\ error = "pydub_decode"

\* C15: a run of transcribe_media_file sends at most one recognition request,
\* whatever the backend answers; after the answer no further request is made.
C15_SingleRequest ==
    /\ requests <= 1
    /\ backend.kind # "none" => (requests = 1 /\ pc \in {"finally", "returned", "exit"})

C15_Witness ==
    /\ pc = "exit"
    /\ backend.kind = "request_error"
    /\ outcome = "request_error"
    /\ requests = 1

\* C17: when the input path does not exist, the program exits with code 1
\* after reporting the missing input, before convert_to_wav is entered: no
\* temporary file, no ffmpeg or pydub invocation, no recognition request.
C17_MissingInput ==
    (argc >= 2 /\ sr_avail /\ pydub_avail /\ media_file_path \notin files) =>
        /\ pc \in {"main", "check_dependencies", "main_exists", "exit"}
        /\ created = {}
        /\ ffmpegCalls = 0
        /\ libCalls = 0
        /\ route = "none"
        /\ requests = 0
        /\ pc = "exit" => (exitCode = 1 /\ stderr = {"input_not_found"})

C17_Witness ==
    /\ pc = "exit"
    /\ media_file_path \notin files
    /\ exitCode = 1
    /\ "input_not_found" \in stderr
    /\ created = {}
    /\ requests = 0

\* the first run is given any of the extensions of RouteExts
InitRoute ==
    /\ \E i \in RouteInputs : Start(i)
    /\ script = FreeScript
    /\ previous = NoPrevious
    /\ NoListener
    /\ FixedClip

SpecRoute == InitRoute /\ [][Next]_vars

\* the route the claim gives each extension
ExpectedRoute(e) ==
    IF e \in {ext_mp4, ext_avi, ext_mkv, ext_mov, ext_wmv, ext_flv, ext_webm,
              ext_m4v, ext_3gp, ext_MP4, ext_WEBM, ext_3GP}
    THEN "video"
    ELSE IF e \in {ext_wav, ext_WAV} THEN "wav" ELSE "audio"

\* the decoder format the claim gives each extension of the audio route
ExpectedDecoder(e) ==
    CASE e \in {ext_mp3, ext_Mp3} -> "mp3"
      [] e = ext_m4a              -> "m4a"
      [] e \in {ext_ogg, ext_OGG} -> "ogg"
      [] e = ext_flac             -> "flac"
      [] e = ext_opus             -> "opus"
      [] e = ext_aac              -> "aac"
      [] e = ext_wma              -> "wma"
      [] OTHER                    -> "auto"

\* C20: the route depends on the extension only, letter case ignored: the nine
\* video extensions take the video route, wav the short-circuit, mp3, m4a,
\* ogg, flac, opus, aac and wma the pydub route with their own format, every
\* other extension the pydub route with auto-detection; the '.webm' branch of
\* the audio route is never taken.
C20_RouteByExtension ==
    /\ (convertResult # "none" /\ error # "pydub_not_available") => route # "none"
    /\ route # "none" => route = ExpectedRoute(media_file_path.ext)
    /\ route = "video" => decoder \in {"none", "auto"}
    /\ route = "wav" => (decoder = "none" /\ libCalls = 0 /\ ffmpegCalls = 0)
    /\ route = "audio" =>
          /\ ffmpegCalls = 0
          /\ decoder \in {"none", ExpectedDecoder(media_file_path.ext)}
          /\ convertResult # "none" => decoder = ExpectedDecoder(media_file_path.ext)
    /\ decoder # "webm"

C20_Witness ==
    /\ media_file_path.ext = ext_WEBM
    /\ route = "video"
    /\ decoder = "auto"
    /\ libState = "ok"
    /\ pc = "exit"

\* ------------------------------------------------- replay of a run
\* the other value of the chunk-mode argument
Flip(cm) == IF Lower(cm) = str_true THEN str_false ELSE str_True

\* what a finished run wrote, returned, invoked, created and deleted
CurrentResult ==
    [chunk |-> chunk_mode, out |-> stdout, code |-> exitCode,
     ffmpegCalls |-> ffmpegCalls, libCalls |-> libCalls, created |-> created,
     deleted |-> deleted, left |-> files, outcome |-> outcome, ret |-> retval,
     unlinkFailed |-> unlinkFailed]

\* the program is started again on the same input, in the same environment,
\* with the other chunk mode
Rerun ==
    /\ pc = "exit"
    /\ run < MaxRuns
    /\ Restart([script.input EXCEPT !.chunk = Flip(chunk_mode)])
    /\ previous' = CurrentResult
    /\ UNCHANGED <<observed, script, listenVars, language, duration>>

InitChunk ==
    \E sc \in Scripts :
        /\ Start(sc.input)
        /\ script = sc
        /\ previous = NoPrevious
        /\ NoListener
        /\ FixedClip

NextChunk ==
    \/ MainArgs
    \/ CheckDependencies
    \/ MainExists
    \/ Construct
    \/ Dispatch
    \/ TranscribeStart
    \/ ConvertRoute
    \/ FfmpegCreateTemp
    \/ FfmpegRun
    \/ SimpleCreateTemp
    \/ SimpleLoad
    \/ SimpleExport
    \/ AudioLoad
    \/ AudioCreateTemp
    \/ AudioExport
    \/ AfterConvert
    \/ OpenAudio
    \/ ReadMetadata
    \/ Calibrate
    \/ Record
    \/ Recognize
    \/ Finally
    \/ MainReturn
    \/ Rerun

SpecChunk == InitChunk /\ [][NextChunk]_vars

\* the chunk-mode argument selects the chunk branch of main
ChunkOn(cm) == cm \in {str_true, str_True}

\* C16: the chunk-mode flag changes nothing: a run and its replay on the same
\* input, with the same tool availability and the same behaviour of ffmpeg,
\* pydub, the backend and os.unlink, but the other chunk mode, write the same
\* primary stream, end with the same exit code, invoke the same strategies and
\* create and delete the same temporary files.
C16_ChunkModeNoOp ==
    (pc = "exit" /\ previous # NoPrevious) =>
        /\ ChunkOn(previous.chunk) # ChunkOn(chunk_mode)
        /\ previous.out = stdout
        /\ previous.code = exitCode
        /\ previous.ffmpegCalls = ffmpegCalls
        /\ previous.libCalls = libCalls
        /\ previous.created = created
        /\ previous.deleted = deleted
        /\ previous.left = files

C16_Witness ==
    /\ pc = "exit"
    /\ previous # NoPrevious
    /\ ChunkOn(chunk_mode)
    /\ ~ChunkOn(previous.chunk)
    /\ Len(stdout) = 3
    /\ previous.out = stdout
    /\ ffmpegCalls = 1
    /\ libCalls = 1
    /\ deleted # {}

\* ------------------------------------------------------------ live listening
\* voice_listen.py (VoiceListener: a capture thread fills audio_queue, the
\* thread in start_listening empties it) and voice_listen_web.py
\* (WebVoiceListener: one thread captures and transcribes in turn).

MaxSegments == 2

Variants == {"queue", "web"}

\* the file program is not what runs
IdleInput == CHOOSE i \in RunInputs : i.pre = "noargs"

\* __init__: an empty queue, the flag set, nothing captured
InitListen ==
    /\ Start(IdleInput)
    /\ script = FreeScript
    /\ previous = NoPrevious
    /\ variant \in Variants
    /\ is_listening = TRUE
    /\ audio_queue = <<>>
    /\ producing = FALSE
    /\ captured = 0
    /\ current = 0
    /\ transcribed = <<>>
    /\ printed = <<>>
    /\ failures = {}
    /\ lpc = "start"
    /\ lateIterations = 0
    /\ heldAtStop = 0
    /\ FixedClip

\* start_listening, lines 41-49: the background capture thread is started
ListenerStart ==
    /\ variant = "queue"
    /\ lpc = "start"
    /\ producing' = TRUE
    /\ lpc' = "loop"
    /\ UNCHANGED <<fileVars, variant, is_listening, audio_queue, captured, current,
                   transcribed, printed, failures, lateIterations, heldAtStop>>

\* the capture thread hands one segment to audio_callback, which enqueues it
audio_callback ==
    /\ producing
    /\ captured < MaxSegments
    /\ captured' = captured + 1
    /\ audio_queue' = Append(audio_queue, captured + 1)
    /\ UNCHANGED <<fileVars, variant, is_listening, producing, current, transcribed,
                   printed, failures, lpc, lateIterations, heldAtStop>>

\* a loop that does not read the flag
LoopContinues_Forever == TRUE

\* while self.is_listening
LoopContinues == is_listening

\* line 52: the loop condition
LoopTest ==
    /\ variant = "queue"
    /\ lpc = "loop"
    /\ lpc' = IF LoopContinues THEN "body" ELSE "done"
    /\ UNCHANGED <<fileVars, variant, is_listening, audio_queue, producing, captured,
                   current, transcribed, printed, failures, lateIterations, heldAtStop>>

\* line 54: if not self.audio_queue.empty()
TestEmpty ==
    /\ variant = "queue"
    /\ lpc = "body"
    /\ lpc' = IF audio_queue # <<>> THEN "get" ELSE "sleep"
    /\ lateIterations' = IF is_listening THEN lateIterations ELSE lateIterations + 1
    /\ UNCHANGED <<fileVars, variant, is_listening, audio_queue, producing, captured,
                   current, transcribed, printed, failures, heldAtStop>>

\* line 55: audio = self.audio_queue.get(timeout=1); this thread is the only
\* one that removes, so the queue found non-empty at line 54 still is
Get ==
    /\ variant = "queue"
    /\ lpc = "get"
    /\ audio_queue # <<>>
    /\ current' = Head(audio_queue)
    /\ audio_queue' = Tail(audio_queue)
    /\ lpc' = "process"
    /\ UNCHANGED <<fileVars, variant, is_listening, producing, captured, transcribed,
                   printed, failures, lateIterations, heldAtStop>>

\* the segments printed once the request for segment seg gave r
Printed(seg, r) ==
    IF r.kind = "text" /\ HasText(r.text) THEN Append(printed, seg) ELSE printed

\* the segments whose request raised, once the request for seg gave r
Failed(seg, r) ==
    IF r.kind \in {"unknown_value", "request_error", "exception"}
    THEN failures \cup {seg} ELSE failures

\* an exception other than the recognizer's own ends the loop
AfterProcess_StopsOnError(kind) == IF kind = "exception" THEN "done" ELSE "loop"

\* lines 52-60, 74-81: whatever the request gave, process_audio returns and
\* the loop goes on to test the flag again
AfterProcess(kind) == "loop"

\* lines 56, 66-81: one recognition request; its text is printed when it is
\* not blank, every exception is handled inside process_audio
process_audio ==
    /\ variant = "queue"
    /\ lpc = "process"
    /\ \E r \in BackendResults :
        /\ transcribed' = Append(transcribed, current)
        /\ printed' = Printed(current, r)
        /\ failures' = Failed(current, r)
        /\ lpc' = AfterProcess(r.kind)
    /\ current' = 0
    /\ UNCHANGED <<fileVars, variant, is_listening, audio_queue, producing, captured,
                   lateIterations, heldAtStop>>

\* line 58: time.sleep(0.1)
Sleep ==
    /\ variant = "queue"
    /\ lpc = "sleep"
    /\ lpc' = "loop"
    /\ UNCHANGED <<fileVars, variant, is_listening, audio_queue, producing, captured,
                   current, transcribed, printed, failures, lateIterations, heldAtStop>>

\* stop(), called from another thread: the flag is cleared and, when the
\* capture thread was started, it is told to stop without being waited for.
\* WebVoiceListener.stop only clears the flag.
stop ==
    /\ is_listening
    /\ is_listening' = FALSE
    /\ producing' = FALSE
    /\ heldAtStop' = current
    /\ UNCHANGED <<fileVars, variant, audio_queue, captured, current, transcribed,
                   printed, failures, lpc, lateIterations>>

\* voice_listen_web.py line 66
WebStart ==
    /\ variant = "web"
    /\ lpc = "start"
    /\ lpc' = "loop"
    /\ UNCHANGED <<fileVars, variant, is_listening, audio_queue, producing, captured,
                   current, transcribed, printed, failures, lateIterations, heldAtStop>>

\* voice_listen_web.py line 68: while self.is_listening
WebLoopTest ==
    /\ variant = "web"
    /\ lpc = "loop"
    /\ lpc' = IF LoopContinues THEN "body" ELSE "done"
    /\ UNCHANGED <<fileVars, variant, is_listening, audio_queue, producing, captured,
                   current, transcribed, printed, failures, lateIterations, heldAtStop>>

\* listen_once, first half: listen(timeout=1, phrase_time_limit=5) gives a
\* segment or times out
WebListen ==
    /\ variant = "web"
    /\ lpc = "body"
    /\ lateIterations' = IF is_listening THEN lateIterations ELSE lateIterations + 1
    /\ \/ /\ captured < MaxSegments
          /\ captured' = captured + 1
          /\ current' = captured + 1
          /\ lpc' = "process"
       \/ /\ lpc' = "sleep"
          /\ UNCHANGED <<captured, current>>
    /\ UNCHANGED <<fileVars, variant, is_listening, audio_queue, producing,
                   transcribed, printed, failures, heldAtStop>>

\* listen_once, second half: the recognition request and its handlers
WebRecognize ==
    /\ variant = "web"
    /\ lpc = "process"
    /\ \E r \in BackendResults :
        /\ transcribed' = Append(transcribed, current)
        /\ printed' = Printed(current, r)
        /\ failures' = Failed(current, r)
    /\ current' = 0
    /\ lpc' = "sleep"
    /\ UNCHANGED <<fileVars, variant, is_listening, audio_queue, producing, captured,
                   lateIterations, heldAtStop>>

\* voice_listen_web.py line 71: time.sleep(0.1)
WebSleep ==
    /\ variant = "web"
    /\ lpc = "sleep"
    /\ lpc' = "loop"
    /\ UNCHANGED <<fileVars, variant, is_listening, audio_queue, producing, captured,
                   current, transcribed, printed, failures, lateIterations, heldAtStop>>

\* the steps of the thread that runs start_listening
Consumer ==
    \/ ListenerStart
    \/ LoopTest
    \/ TestEmpty
    \/ Get
    \/ process_audio
    \/ Sleep
    \/ WebStart
    \/ WebLoopTest
    \/ WebListen
    \/ WebRecognize
    \/ WebSleep

NextListen ==
    \/ Consumer
    \/ audio_callback
    \/ stop

SpecListen == InitListen /\ [][NextListen]_vars

\* The thread in start_listening is an ordinary thread that the interpreter
\* keeps scheduling, and each of its steps ends: sleep(0.1), a get on a
\* non-empty queue, listen with timeout=1 and phrase_time_limit=5, and a
\* recognition request that is taken to return.
SpecListenFair == InitListen /\ [][NextListen]_vars /\ WF_vars(Consumer)

\* the segments 1..n in capture order, each once
InCaptureOrder(n) == [i \in 1..n |-> i]

\* C18: in live listening every captured segment is transcribed exactly once
\* and in capture order, and no enqueued segment is dropped: once the loop of
\* start_listening has ended, every captured segment has been transcribed,
\* those still queued when the flag was cleared included.
C18_NoSegmentDropped ==
    /\ transcribed = InCaptureOrder(Len(transcribed))
    /\ (lpc = "done" => Len(transcribed) = captured)

\* C19: cancellation is cooperative.  After stop() cleared the flag the loop
\* enters at most one more body, a segment whose processing was in progress
\* when stop() ran is still transcribed, nothing is held when the loop has
\* ended, and under fair scheduling of the looping thread the loop ends.
C19_CooperativeStop ==
    /\ [](lateIterations <= 1)
    /\ []((lpc = "done" /\ heldAtStop # 0) =>
            \E k \in 1..Len(transcribed) : transcribed[k] = heldAtStop)
    /\ [](lpc = "done" => current = 0)
    /\ (~is_listening ~> (lpc = "done"))

C19_Witness ==
    /\ lpc = "done"
    /\ ~is_listening
    /\ heldAtStop # 0
    /\ lateIterations = 0
    /\ \E k \in 1..Len(transcribed) : transcribed[k] = heldAtStop

\* ------------------------------------------------------------ recognition steps
\* Recordings of several lengths and sessions with several language tags.

Durations == 0..MaxSeconds

Languages == {"en-US", "ur-PK"}

RecordInputs ==
    {[pre |-> "ok", ext |-> e, fmt |-> Pcm(1, 16000, 16), valid |-> v,
      ffmpeg |-> ff, chunk |-> str_false] :
        e \in {ext_wav, ext_mp3, ext_mp4}, v \in BOOLEAN, ff \in BOOLEAN}

InitRecord ==
    /\ \E i \in RecordInputs : Start(i)
    /\ script = FreeScript
    /\ previous = NoPrevious
    /\ NoListener
    /\ language \in Languages
    /\ duration \in Durations

\* Between the existence check of main (line 323) and the one of
\* transcribe_media_file (line 240) nothing holds the input: another process
\* may remove it.
InputVanishes ==
    /\ pc \in {"construct", "dispatch", "transcribe"}
    /\ media_file_path \in files
    /\ RemoveFile(media_file_path)
    /\ UNCHANGED <<pc, ffmpeg_available, exitCode, observed, inputVars, nextTemp,
                   created, stratVars, localVars, resultVars, cleanVars, traceVars,
                   replayVars, recVars, listenVars, sessionVars>>

\* one run of the program
NextRecord ==
    \/ MainArgs
    \/ CheckDependencies
    \/ MainExists
    \/ Construct
    \/ Dispatch
    \/ TranscribeStart
    \/ ConvertRoute
    \/ FfmpegCreateTemp
    \/ FfmpegRun
    \/ SimpleCreateTemp
    \/ SimpleLoad
    \/ SimpleExport
    \/ AudioLoad
    \/ AudioCreateTemp
    \/ AudioExport
    \/ AfterConvert
    \/ OpenAudio
    \/ ReadMetadata
    \/ Calibrate
    \/ Record
    \/ Recognize
    \/ Finally
    \/ MainReturn
    \/ InputVanishes

SpecRecord == InitRecord /\ [][NextRecord]_vars

RecognitionOrder == <<"open", "metadata", "calibrate", "record", "request">>

\* C22: when the recognition request has been sent, the steps of the
\* invocation were, in this order, open the resource, read the metadata,
\* calibrate, read the buffer, send the request; the one request carries the
\* whole recording of the normalized resource, from its first second to its
\* last, and the session's language tag.
C22_OrderedFullRequest ==
    sent # NoRequest =>
        /\ steps = RecognitionOrder
        /\ requests = 1
        /\ sent.from = 0
        /\ sent.to = duration
        /\ sent.language = language

\* ------------------------------------------------------------ error handling
\* a failure of a strategy, of audio loading or of the recognition call ended
\* the work of transcribe_media_file
Failure ==
    \/ outcome \in {"error", "request_error"}
    \/ backend.kind = "unknown_value"

\* the kinds of the error taxonomy written to the diagnostic stream
ReportedKinds ==
    stderr \cap {"error", "no_speech", "unintelligible", "request_error",
                 "cleanup_failed"}

RerunUnlink ==
    /\ pc = "exit"
    /\ run < MaxRuns
    /\ Restart(script.input)
    /\ script' = [script EXCEPT !.unlink = ~script.unlink]
    /\ previous' = CurrentResult
    /\ UNCHANGED <<observed, listenVars, language, duration>>

NextUnlink ==
    \/ MainArgs
    \/ CheckDependencies
    \/ MainExists
    \/ Construct
    \/ Dispatch
    \/ TranscribeStart
    \/ ConvertRoute
    \/ FfmpegCreateTemp
    \/ FfmpegRun
    \/ SimpleCreateTemp
    \/ SimpleLoad
    \/ SimpleExport
    \/ AudioLoad
    \/ AudioCreateTemp
    \/ AudioExport
    \/ AfterConvert
    \/ OpenAudio
    \/ ReadMetadata
    \/ Calibrate
    \/ Record
    \/ Recognize
    \/ Finally
    \/ MainReturn
    \/ RerunUnlink

SpecUnlink == InitChunk /\ [][NextUnlink]_vars

\* C24: a failing deletion of the temporary file is only logged.  When it
\* failed, transcribe_media_file still returned normally and the exit code is
\* 0; and the run in which the deletion fails and the run in which it succeeds
\* (same input, same behaviour of everything else) write the same primary
\* stream, end with the same exit code and have the same outcome.
C24_CleanupFailureOnlyLogged ==
    /\ unlinkFailed =>
        /\ pc \in {"returned", "exit"}
        /\ retval = "None"
        /\ "cleanup_failed" \in stderr
        /\ pc = "exit" => exitCode = 0
    /\ (pc = "exit" /\ previous # NoPrevious) =>
        /\ previous.out = stdout
        /\ previous.code = exitCode
        /\ previous.outcome = outcome
        /\ previous.ret = retval

C24_Witness ==
    /\ pc = "exit"
    /\ previous # NoPrevious
    /\ previous.unlinkFailed
    /\ ~unlinkFailed
    /\ temp_wav_path \in deleted
    /\ outcome = "text"
    /\ previous.outcome = "text"
    /\ previous.out = stdout
    /\ exitCode = 0

\* ------------------------------------------------------------ request order
\* normalization of this invocation did not succeed
NotNormalized == convertResult = "failed" \/ error = "file_not_found"

\* C26: the recognition request comes only after the normalization of the same
\* invocation succeeded.  When the input does not exist in
\* transcribe_media_file or convert_to_wav failed, control is in or past the
\* finally block, no audio resource was opened and no request was sent; and
\* whenever a resource was opened or a request sent, convert_to_wav had
\* returned a path.
C26_RequestOnlyAfterNormalize ==
    /\ NotNormalized =>
        /\ pc \in {"finally", "returned", "exit"}
        /\ steps = <<>>
        /\ requests = 0
        /\ sent = NoRequest
        /\ handed = NoAudio
    /\ (steps # <<>> \/ requests > 0) => convertResult = "ok"

C26_Witness ==
    /\ pc = "exit"
    /\ error = "file_not_found"
    /\ media_file_path \notin files
    /\ convertResult = "none"
    /\ steps = <<>>
    /\ requests = 0

\* ------------------------------------------------------------ listener failures
\* C27: a failure while one segment is transcribed neither ends the consumer
\* loop nor touches the stop flag: the step that ends the processing of a
\* segment leaves is_listening as it was and leads back into the loop, and
\* every captured segment is processed in the end unless is_listening has
\* been cleared, segments captured after a failed one included.
C27_LoopSurvivesFailure ==
    /\ [][(lpc = "process" /\ lpc' # "process") =>
            (is_listening' = is_listening /\ lpc' \in {"loop", "sleep"})]_vars
    /\ \A k \in 1..(MaxSegments + 1) :
         (captured >= k) ~> (Len(transcribed) >= k \/ ~is_listening)

C27_Witness ==
    /\ variant = "queue"
    /\ is_listening
    /\ failures = {1}
    /\ Len(transcribed) = 2
    /\ printed = <<2>>
    /\ lpc = "loop"

\* ------------------------------------------------------------ one session
\* One MediaTranscriber whose user calls convert_to_wav directly, several
\* times, on the same input, before main's call of transcribe_media_file.

MaxCalls == 2

SessionInputs ==
    {[pre |-> "ok", ext |-> e, fmt |-> f, valid |-> v, ffmpeg |-> ff,
      chunk |-> str_false] :
        e \in {ext_mp4, ext_wav, ext_mp3},
        f \in {Pcm(2, 44100, 16), Pcm(1, 16000, 8)},
        v \in BOOLEAN, ff \in BOOLEAN}

InitSession ==
    /\ \E i \in SessionInputs : Start(i)
    /\ script = FreeScript
    /\ previous = NoPrevious
    /\ NoListener
    /\ FixedClip

\* the session's user calls convert_to_wav(media_file_path)
CallConvert ==
    /\ pc = "dispatch"
    /\ Len(calls) < MaxCalls
    /\ caller' = "session"
    /\ pc' = "convert_to_wav"
    /\ UNCHANGED <<ffmpeg_available, exitCode, observed, inputVars, fsVars, stratVars,
                   localVars, resultVars, cleanVars, traceVars, replayVars, recVars,
                   listenVars, calls, written, reads>>

\* what one call of convert_to_wav gave its caller
CallResult ==
    [route  |-> route,
     result |-> convertResult,
     owned  |-> (convertResult = "ok" /\ wav_file_path # media_file_path),
     format |-> IF convertResult = "ok" /\ wav_file_path \in files
                THEN content[wav_file_path] ELSE NoAudio,
     path   |-> wav_file_path]

\* convert_to_wav returns to the session's user, with a path or an exception;
\* the locals of the call are gone
ConvertReturn ==
    /\ pc = "after_convert"
    /\ caller = "session"
    /\ calls' = Append(calls, CallResult)
    /\ caller' = "transcribe"
    /\ pc' = "dispatch"
    /\ wav_file_path' = NoPath
    /\ convertResult' = "none"
    /\ route' = "none"
    /\ error' = "none"
    /\ ffmpegState' = "idle"
    /\ libState' = "idle"
    /\ ffmpegTemp' = NoPath
    /\ audio' = NoAudio
    /\ decoder' = "none"
    /\ UNCHANGED <<ffmpeg_available, exitCode, observed, inputVars, fsVars,
                   ffmpegCalls, libCalls, temp_wav_path, resultVars, cleanVars,
                   requests, backend, stderr, replayVars, recVars, listenVars,
                   written, reads>>

NextSession ==
    \/ MainArgs
    \/ CheckDependencies
    \/ MainExists
    \/ Construct
    \/ CallConvert
    \/ ConvertReturn
    \/ Dispatch
    \/ TranscribeStart
    \/ ConvertRoute
    \/ FfmpegCreateTemp
    \/ FfmpegRun
    \/ SimpleCreateTemp
    \/ SimpleLoad
    \/ SimpleExport
    \/ AudioLoad
    \/ AudioCreateTemp
    \/ AudioExport
    \/ AfterConvert
    \/ OpenAudio
    \/ ReadMetadata
    \/ Calibrate
    \/ Record
    \/ Recognize
    \/ Finally
    \/ MainReturn

SpecSession == InitSession /\ [][NextSession]_vars

\* C21: within one session ffmpeg_available is assigned exactly once, by the
\* constructor's probe and before convert_to_wav reads it; every read, in
\* whichever call and whether or not the transcoder failed before, sees the
\* value the constructor wrote, and the attribute keeps that value.
C21_ProbeWrittenOnce ==
    /\ Len(written) <= 1
    /\ pc \notin {"main", "check_dependencies", "main_exists", "construct", "exit"}
         => Len(written) = 1
    /\ \A k \in 1..Len(reads) : Len(written) = 1 /\ reads[k] = written[1]
    /\ Len(written) = 1 => ffmpeg_available = written[1]

C21_Witness ==
    /\ pc = "recognize"
    /\ Len(calls) = 2
    /\ calls[1].result = "ok"
    /\ calls[2].result = "failed"
    /\ ffmpegCalls = 3
    /\ ffmpegState = "failed"
    /\ libState = "ok"
    /\ reads = <<TRUE, TRUE, TRUE>>
    /\ written = <<TRUE>>

\* C25: two convert_to_wav calls of one session on the same unchanged input
\* take the same route and end in the same kind of outcome; when they succeed
\* their outputs have the same ownership flag and the same format parameters,
\* and owned outputs have different paths.
C25_NormalizeIdempotent ==
    \A a, b \in 1..Len(calls) :
        a < b =>
            /\ calls[a].route = calls[b].route
            /\ calls[a].result = calls[b].result
            /\ calls[a].result = "ok" =>
                /\ calls[a].owned = calls[b].owned
                /\ calls[a].format = calls[b].format
                /\ calls[a].owned => calls[a].path # calls[b].path

====
